---- MODULE Spec2Model ----
(***************************************************************************)
(* VulnGPT: the query pipeline (translator -> search -> advisor), the HTTP *)
(* handler process_query that orchestrates it, and the load harness that   *)
(* runs many pipeline invocations concurrently.                            *)
(*                                                                         *)
(* Every `await` of the source is one step of the model: the step that     *)
(* issues an external call ends where the coroutine suspends, and the step *)
(* that receives the collaborator's answer runs the code up to the next    *)
(* suspension.  The collaborators (completion service, search index) are   *)
(* the environment: their answers are drawn with \E from small sets.       *)
(*                                                                         *)
(* Python strings the code only passes around are TLA+ strings; the user's *)
(* question, which the code strips, is a sequence of characters.  A text   *)
(* the code builds with f-strings is the sequence of its pieces.           *)
(***************************************************************************)
EXTENDS Integers, Sequences, FiniteSets, TLC

\* ------------------------------------------------------------------ bounds

MaxQuestionLen == 2     \* characters in a question sent to the HTTP endpoint
MaxLimit == 2           \* largest `limit` a request carries
MaxMatches == 2         \* matches in one answer of the search index
MaxQueries == 3         \* queries in the list given to the load harness
MaxUsers == 3           \* largest concurrency level of the load harness
MaxElapsed == 1         \* largest elapsed time of one invocation, in ticks
MaxSamples == 5         \* results in one list handed to analyze_results alone
MaxEvalQueries == 2     \* queries in the list given to run_evaluation
MaxIterations == 2      \* largest iteration count given to run_evaluation

\* ------------------------------------------------------- strings, str.strip

\* The text of a question is the sequence of its characters, and a character
\* is its Unicode code point, ord(c).
\*
\* The characters str.strip() removes, those for which str.isspace() holds:
\* U+0009 to U+000D, U+001C to U+001F, U+0020, U+0085, U+00A0, U+1680,
\* U+2000 to U+200A, U+2028, U+2029, U+202F, U+205F, U+3000.
Whitespace ==
    (9..13) \cup (28..32) \cup {133, 160, 5760} \cup (8192..8202)
        \cup {8232, 8233, 8239, 8287, 12288}

\* The characters of the questions explored: the blank and the letter a.
Chars == {32, 97}

RECURSIVE LStrip(_)
LStrip(s) == IF s = <<>> THEN s
             ELSE IF Head(s) \in Whitespace THEN LStrip(Tail(s)) ELSE s

RECURSIVE RStrip(_)
RStrip(s) == IF s = <<>> THEN s
             ELSE IF s[Len(s)] \in Whitespace
                  THEN RStrip(SubSeq(s, 1, Len(s) - 1)) ELSE s

\* A plausible slip: only the empty string counts as empty (no stripping).
StripNoTrim(s) == s

\* str.strip(): leading and trailing whitespace removed.
Strip(s) == RStrip(LStrip(s))

RECURSIVE JoinStr(_, _)
\* sep.join(parts) for a sequence of strings.
JoinStr(sep, parts) ==
    IF parts = <<>> THEN ""
    ELSE IF Len(parts) = 1 THEN parts[1]
    ELSE parts[1] \o sep \o JoinStr(sep, Tail(parts))

\* --------------------------------------------------- exceptions and results

NoExc == [type |-> "None", status_code |-> 0, msg |-> ""]
Exc(t, m) == [type |-> t, status_code |-> 0, msg |-> m]
\* fastapi.HTTPException(status_code, detail): a subclass of Exception.
HTTPExc(code, detail) == [type |-> "HTTPException", status_code |-> code, msg |-> detail]

\* str(e): starlette's HTTPException prints "<status>: <detail>", every
\* other exception of the model prints its message.
Str(e) == IF e.type = "HTTPException"
          THEN ToString(e.status_code) \o ": " \o e.msg
          ELSE e.msg

\* Python values the translator can hand back.
PyNone == [kind |-> "none", val |-> <<>>]
PyList == [kind |-> "list", val |-> <<>>]
PyDict(f) == [kind |-> "dict", val |-> f]

Ok(v) == [ok |-> TRUE, value |-> v, exc |-> NoExc]
Raise(e) == [ok |-> FALSE, value |-> PyNone, exc |-> e]

\* v[key] for a string key.
Subscript(v, key) ==
    CASE v.kind = "dict" ->
            IF key \in DOMAIN v.val THEN Ok(v.val[key])
            ELSE Raise(Exc("KeyError", "'" \o key \o "'"))
      [] v.kind = "list" ->
            Raise(Exc("TypeError", "list indices must be integers or slices, not str"))
      [] OTHER ->
            Raise(Exc("TypeError", "'NoneType' object is not subscriptable"))

\* dict.get(key, default)
Get(d, key, default) == IF key \in DOMAIN d THEN d[key] ELSE default

\* ------------------------------------------- the completion service's answers

\* message.content of a completion: text that is not JSON, text that is JSON
\* (with the value json.loads gives), or no text at all.
ContentValid ==
    [kind |-> "json",
     value |-> PyDict([shodan_query |-> "product:nginx country:US",
                       explanation |-> "Nginx servers located in the US"])]
ContentProse == [kind |-> "text", value |-> PyNone]
ContentNoQuery ==
    [kind |-> "json", value |-> PyDict([explanation |-> "No query came to mind"])]
ContentNoExplanation ==
    [kind |-> "json", value |-> PyDict([shodan_query |-> "port:22"])]
ContentArray == [kind |-> "json", value |-> PyList]
ContentNone == [kind |-> "none", value |-> PyNone]

TranslatorContents ==
    {ContentValid, ContentProse, ContentNoQuery, ContentNoExplanation,
     ContentArray, ContentNone}

TransportFailure == [ok |-> FALSE, content |-> ContentNone, error |-> "Connection error."]
Completion(c) == [ok |-> TRUE, content |-> c, error |-> ""]

TranslatorReplies == {TransportFailure} \cup {Completion(c) : c \in TranslatorContents}

SolutionTexts == {"Upgrade the server", "Close the port"}
AdvisorFailure == [ok |-> FALSE, content |-> "", error |-> "Rate limit reached"]
AdvisorReplies == {AdvisorFailure} \cup
                  {[ok |-> TRUE, content |-> t, error |-> ""] : t \in SolutionTexts}

\* json.loads
JsonLoads(content) ==
    IF content.kind = "json" THEN Ok(content.value)
    ELSE Raise(Exc("JSONDecodeError", "Expecting value: line 1 column 1 (char 0)"))

\* ------------------------------------------------------------- the translator

SentinelQuery ==
    PyDict([shodan_query |-> "Error: Could not generate query",
            explanation |->
              "The response format was invalid. Please try rephrasing your question."])

\* The outer `except Exception` of get_shodan_query.
TranslatorWrap(e) == HTTPExc(500, "Error generating Shodan query: " \o Str(e))

\* get_shodan_query up to its await: the input validation.
GetShodanQueryValidate(user_question) ==
    IF Strip(user_question) = <<>>
    THEN Raise(TranslatorWrap(Exc("ValueError", "Empty question provided")))
    ELSE Ok(PyNone)

\* get_shodan_query from the completion's answer to its return.
GetShodanQueryResume(reply) ==
    IF ~reply.ok THEN Raise(TranslatorWrap(Exc("APIConnectionError", reply.error)))
    ELSE IF reply.content.kind = "none" THEN Ok(PyNone)
    ELSE LET parsed == JsonLoads(reply.content)
         IN  IF parsed.ok THEN parsed ELSE Ok(SentinelQuery)

\* --------------------------------------------------------- the search executor

\* A match of the upstream index: a dict with any of its keys absent.
MatchFull ==
    [ip_str |-> "192.0.2.10", port |-> "80", org |-> "Example Org",
     location |-> PyDict([country_name |-> "Germany", city |-> "Berlin"]),
     timestamp |-> "2024-11-17T10:00:00", product |-> "Apache httpd",
     version |-> "2.4.49", vulns |-> <<"CVE-2021-41773", "CVE-2021-42013">>]
MatchSparse ==
    [ip_str |-> "192.0.2.20", location |-> PyDict([country_name |-> "Canada"])]
\* A match whose location is present but null.
MatchNullLocation == [ip_str |-> "192.0.2.30", port |-> "22", location |-> PyNone]

RawMatches == {MatchFull, MatchSparse, MatchNullLocation}

RECURSIVE SeqsUpTo(_, _)
\* The sequences over S of length 0..n.
SeqsUpTo(S, n) ==
    IF n = 0 THEN {<<>>}
    ELSE LET shorter == SeqsUpTo(S, n - 1)
         IN  shorter \cup {Append(s, x) : s \in {t \in shorter : Len(t) = n - 1}, x \in S}

\* What api.search does: raises shodan.APIError, raises something else (the
\* network), or returns {'matches': [...]}.
SearchResponses ==
    {[kind |-> "api_error", matches |-> <<>>, error |-> "Invalid API key"],
     [kind |-> "error", matches |-> <<>>, error |-> "Connection timed out"]}
    \cup {[kind |-> "ok", matches |-> m, error |-> ""] : m \in SeqsUpTo(RawMatches, MaxMatches)}

\* location.get(key, 'N/A') where location = result.get('location', {}).
LocationField(m, key) ==
    LET loc == Get(m, "location", PyDict(<<>>))
    IN  IF loc.kind = "dict" THEN Ok(Get(loc.val, key, "N/A"))
        ELSE Raise(Exc("AttributeError", "'NoneType' object has no attribute 'get'"))

\* The dict built for one match.
FormatMatch(m) ==
    LET country == LocationField(m, "country_name")
        city == LocationField(m, "city")
    IN  IF ~country.ok THEN country
        ELSE IF ~city.ok THEN city
        ELSE Ok([ip |-> Get(m, "ip_str", "N/A"),
                 port |-> Get(m, "port", "N/A"),
                 organization |-> Get(m, "org", "N/A"),
                 location |-> country.value \o ", " \o city.value,
                 timestamp |-> Get(m, "timestamp", "N/A"),
                 product |-> Get(m, "product", "N/A"),
                 version |-> Get(m, "version", "N/A"),
                 vulns |-> Get(m, "vulns", <<>>)])

RECURSIVE FormatMatches(_, _)
\* The for loop over results['matches'], formatted_results so far in acc.
FormatMatches(matches, acc) ==
    IF matches = <<>> THEN Ok(acc)
    ELSE LET f == FormatMatch(Head(matches))
         IN  IF f.ok THEN FormatMatches(Tail(matches), Append(acc, f.value))
             ELSE f

\* execute_shodan_query from the index's answer to its return.
ExecuteShodanQuery(resp) ==
    IF resp.kind = "api_error"
    THEN Raise(HTTPExc(500, "Shodan API Error: " \o resp.error))
    ELSE IF resp.kind = "error"
    THEN Raise(HTTPExc(500, "Error executing Shodan query: " \o resp.error))
    ELSE LET r == FormatMatches(resp.matches, <<>>)
         IN  IF r.ok THEN r
             ELSE Raise(HTTPExc(500, "Error executing Shodan query: " \o Str(r.exc)))

\* ---------------------------------------------------------------- the advisor

SolutionSentinel == "Unable to generate solution for this result."

\* The analysis prompt for one host record.
AnalysisPrompt(result) ==
    "Analyze this system and provide specific solutions:\n"
    \o "Product: " \o result.product \o " " \o result.version \o "\n"
    \o "Port: " \o result.port \o "\n"
    \o (IF result.vulns # <<>>
        THEN "Vulnerabilities: " \o JoinStr(", ", result.vulns) \o "\n"
        ELSE "")

\* A plausible slip: the failure of one completion is not caught.
SolutionFromReplyUncaught(reply) == reply.content

\* get_security_solution_for_result from the completion's answer to its
\* return: the text, or the sentinel when the call raised.
SolutionFromReply(reply) ==
    IF reply.ok THEN reply.content ELSE SolutionSentinel

\* ------------------------------------------------------------- the report

Min(a, b) == IF a <= b THEN a ELSE b

\* The pictographs of the report.  A string of this module holds no character
\* above U+00FF, so each one is written as the escape sequence that denotes
\* it in a Python string literal: a backslash, U, and eight hexadecimal
\* digits per code point.
LeftPointingMagnifyingGlass == "\\U0001F50D"
Memo == "\\U0001F4DD"
GlobeWithMeridians == "\\U0001F310"
BarChart == "\\U0001F4CA"
ShieldEmoji == "\\U0001F6E1\\U0000FE0F"     \* SHIELD, VARIATION SELECTOR-16

ResultLabel(idx) == "\n" \o BarChart \o " Result " \o ToString(idx) \o ":\n"
SolutionLabel(idx) ==
    "\n" \o ShieldEmoji \o " Proposed Solution for Result "
    \o ToString(idx) \o ":\n"

\* The pieces appended for result idx and its solution.
\* A plausible slip: the vulnerability line is written for every record.
ReportSectionAlwaysVulns(idx, result, solution) ==
    <<ResultLabel(idx),
      "IP: " \o result.ip \o "\n",
      "Port: " \o result.port \o "\n",
      "Organization: " \o result.organization \o "\n",
      "Location: " \o result.location \o "\n",
      "Product: " \o result.product \o " " \o result.version \o "\n",
      "Vulnerabilities: " \o JoinStr(", ", result.vulns) \o "\n",
      SolutionLabel(idx), solution, "\n">>

ReportSection(idx, result, solution) ==
    <<ResultLabel(idx),
      "IP: " \o result.ip \o "\n",
      "Port: " \o result.port \o "\n",
      "Organization: " \o result.organization \o "\n",
      "Location: " \o result.location \o "\n",
      "Product: " \o result.product \o " " \o result.version \o "\n">>
    \o (IF result.vulns # <<>>
        THEN <<"Vulnerabilities: " \o JoinStr(", ", result.vulns) \o "\n">>
        ELSE <<>>)
    \o <<SolutionLabel(idx), solution, "\n">>

RECURSIVE ReportSections(_, _, _)
\* enumerate(zip(shodan_results, security_solutions), 1), from index idx on.
ReportSections(idx, results, solutions) ==
    IF idx > Min(Len(results), Len(solutions)) THEN <<>>
    ELSE ReportSection(idx, results[idx], solutions[idx])
         \o ReportSections(idx + 1, results, solutions)

\* A plausible slip: the report leaves the explanation out.
BuildReportNoExplanation(chatgpt_response, results, solutions) ==
    LET q == Subscript(chatgpt_response, "shodan_query")
    IN  IF ~q.ok THEN q
        ELSE Ok(<<LeftPointingMagnifyingGlass \o " Suggested Shodan Query:\n",
                  q.value, "\n\n",
                  GlobeWithMeridians \o " Results and Solutions:\n">>
                \o ReportSections(1, results, solutions))

\* formatted_response: the pieces of the text, or the exception a missing
\* key raises.
BuildReport(chatgpt_response, results, solutions) ==
    LET q == Subscript(chatgpt_response, "shodan_query")
        e == Subscript(chatgpt_response, "explanation")
    IN  IF ~q.ok THEN q
        ELSE IF ~e.ok THEN e
        ELSE Ok(<<LeftPointingMagnifyingGlass \o " Suggested Shodan Query:\n",
                  q.value, "\n\n",
                  Memo \o " Explanation:\n", e.value, "\n\n",
                  GlobeWithMeridians \o " Results and Solutions:\n">>
                \o ReportSections(1, results, solutions))

\* ------------------------------------------------ the HTTP handler's state

VARIABLES
    pc,                 \* where process_query is: idle, await_translator,
                        \* await_search, await_advisor, done
    request,            \* the QueryRequest: query, limit
    chatgpt_response,   \* what get_shodan_query returned
    shodan_results,     \* what execute_shodan_query returned
    security_solutions, \* `solutions` of get_security_solutions
    raised,             \* the exception the handler's except clause caught
    response,           \* what the handler answered: status, guidance, detail
    calls,              \* the external calls issued for this request, in order
    translator_answer,  \* the completion service's answer to the translator
    answers             \* the completion service's answers to the advisor

svcVars == <<pc, request, chatgpt_response, shodan_results, security_solutions,
             raised, response, calls, translator_answer, answers>>

\* The load harness's state.
VARIABLES
    lpc,              \* where run_concurrent_queries / main is: idle, gathering,
                      \* returned, analyzed
    queries,          \* the query list
    concurrent_users, \* the concurrency level
    tasks,            \* the execute_single_query coroutines handed to gather
    results,          \* what run_concurrent_queries returned
    analysis          \* what analyze_results returned

loadVars == <<lpc, queries, concurrent_users, tasks, results, analysis>>

\* The single-query evaluation harness's state.
VARIABLES
    epc,            \* where run_evaluation is: idle, attempt, await_translator,
                    \* await_search, await_advisor, sleeping, returned
    test_queries,   \* the query list
    iterations,     \* the iteration count
    position,       \* the two for loops: the query index and the iteration
    measure,        \* the locals of the running measure_query_performance
    eval_results,   \* `results` of run_evaluation
    now,            \* time.time(), in ticks
    journal,        \* what run_evaluation did so far, in order: an invocation
                    \* started, returned or raised, the sleep ended
    main_pc,        \* where evaluation.main is: evaluating, saved, or failed
                    \* when an exception ended it
    eval_analysis,  \* what analyze_results returned to main
    main_raised,    \* the exception that ended main
    files           \* what save_results wrote: the rows of the CSV file and
                    \* the content of the JSON file

mainVars == <<main_pc, eval_analysis, main_raised, files>>
evalVars == <<epc, test_queries, iterations, position, measure, eval_results,
              now, journal, mainVars>>
vars == <<svcVars, loadVars, evalVars>>

Questions == SeqsUpTo(Chars, MaxQuestionLen)
\* The content of the user message: the question as it arrived.
Text(q) == q

NoAnswer == [ok |-> FALSE, content |-> ContentNone, error |-> ""]
NoResponse == [status |-> 0, guidance |-> <<>>, detail |-> ""]
Call(svc, by, arg) == [svc |-> svc, by |-> by, arg |-> arg]

\* The handler's `except Exception as e`: every exception raised in the try
\* block, HTTPException included, becomes a 500 carrying str(e).
ErrorResponse(e) ==
    [status |-> 500, guidance |-> <<>>, detail |-> "Error processing query: " \o Str(e)]

\* JSONResponse({"guidance": formatted_response})
OkResponse(report) == [status |-> 200, guidance |-> report, detail |-> ""]

Abort(e) ==
    /\ raised' = e
    /\ response' = ErrorResponse(e)
    /\ pc' = "done"

\* The formatting of the report and the handler's return.
Finish(resp, hosts, solutions) ==
    LET report == BuildReport(resp, hosts, solutions)
    IN  IF report.ok
        THEN /\ raised' = NoExc
             /\ response' = OkResponse(report.value)
             /\ pc' = "done"
        ELSE Abort(report.exc)

SvcInit ==
    /\ pc = "idle"
    /\ request = [query |-> <<>>, limit |-> 5]
    /\ chatgpt_response = PyNone
    /\ shodan_results = <<>>
    /\ security_solutions = <<>>
    /\ raised = NoExc
    /\ response = NoResponse
    /\ calls = <<>>
    /\ translator_answer = NoAnswer
    /\ answers = <<>>

\* POST /query arrives: the emptiness check, then get_shodan_query up to the
\* completion request it awaits.
Receive(q, limit) ==
    /\ UNCHANGED <<loadVars, evalVars>>
    /\ pc \in {"idle", "done"}
    /\ request' = [query |-> q, limit |-> limit]
    /\ chatgpt_response' = PyNone
    /\ shodan_results' = <<>>
    /\ security_solutions' = <<>>
    /\ translator_answer' = NoAnswer
    /\ answers' = <<>>
    /\ IF Strip(q) = <<>>
       THEN /\ Abort(HTTPExc(400, "Query cannot be empty"))
            /\ calls' = <<>>
       ELSE LET v == GetShodanQueryValidate(q)
            IN  IF ~v.ok
                THEN /\ Abort(v.exc)
                     /\ calls' = <<>>
                ELSE /\ calls' = <<Call("completion", "translator", Text(q))>>
                     /\ raised' = NoExc
                     /\ response' = NoResponse
                     /\ pc' = "await_translator"

\* The translator's completion answers: get_shodan_query returns or raises,
\* and the handler goes on to the search call.
TranslatorReply(reply) ==
    /\ UNCHANGED <<loadVars, evalVars>>
    /\ pc = "await_translator"
    /\ UNCHANGED <<request, shodan_results, security_solutions, answers>>
    /\ translator_answer' = reply
    /\ LET r == GetShodanQueryResume(reply)
       IN  IF ~r.ok
           THEN /\ Abort(r.exc)
                /\ UNCHANGED <<chatgpt_response, calls>>
           ELSE /\ chatgpt_response' = r.value
                /\ LET q == Subscript(r.value, "shodan_query")
                   IN  IF ~q.ok
                       THEN /\ Abort(q.exc)
                            /\ UNCHANGED calls
                       ELSE /\ calls' = Append(calls, Call("search", "search", q.value))
                            /\ UNCHANGED <<raised, response>>
                            /\ pc' = "await_search"

\* A plausible slip: the advisor's completion requests for all records are
\* issued together, as a fan-out, when the search returns.
SearchReplyFanOut(resp) ==
    /\ UNCHANGED <<loadVars, evalVars>>
    /\ pc = "await_search"
    /\ UNCHANGED <<request, chatgpt_response, security_solutions,
                   translator_answer, answers>>
    /\ LET r == ExecuteShodanQuery(resp)
       IN  IF ~r.ok
           THEN /\ Abort(r.exc)
                /\ UNCHANGED <<shodan_results, calls>>
           ELSE /\ shodan_results' = r.value
                /\ IF r.value = <<>>
                   THEN /\ Finish(chatgpt_response, r.value, <<>>)
                        /\ UNCHANGED calls
                   ELSE /\ calls' = calls \o
                               [i \in DOMAIN r.value |->
                                   Call("completion", "advisor", AnalysisPrompt(r.value[i]))]
                        /\ UNCHANGED <<raised, response>>
                        /\ pc' = "await_advisor"

\* The search index answers: execute_shodan_query returns or raises, and
\* get_security_solutions starts on the first record.
SearchReply(resp) ==
    /\ UNCHANGED <<loadVars, evalVars>>
    /\ pc = "await_search"
    /\ UNCHANGED <<request, chatgpt_response, security_solutions,
                   translator_answer, answers>>
    /\ LET r == ExecuteShodanQuery(resp)
       IN  IF ~r.ok
           THEN /\ Abort(r.exc)
                /\ UNCHANGED <<shodan_results, calls>>
           ELSE /\ shodan_results' = r.value
                /\ IF r.value = <<>>
                   THEN /\ Finish(chatgpt_response, r.value, <<>>)
                        /\ UNCHANGED calls
                   ELSE /\ calls' = Append(calls,
                               Call("completion", "advisor", AnalysisPrompt(r.value[1])))
                        /\ UNCHANGED <<raised, response>>
                        /\ pc' = "await_advisor"

\* One advisor completion answers: the solution is appended and the loop of
\* get_security_solutions goes to the next record, or the report is built.
AdvisorReply(reply) ==
    /\ UNCHANGED <<loadVars, evalVars>>
    /\ pc = "await_advisor"
    /\ UNCHANGED <<request, chatgpt_response, shodan_results, translator_answer>>
    /\ answers' = Append(answers, reply)
    /\ LET solutions == Append(security_solutions, SolutionFromReply(reply))
       IN  /\ security_solutions' = solutions
           /\ IF Len(solutions) < Len(shodan_results)
              THEN /\ calls' = Append(calls,
                          Call("completion", "advisor",
                               AnalysisPrompt(shodan_results[Len(solutions) + 1])))
                   /\ UNCHANGED <<raised, response, pc>>
              ELSE /\ Finish(chatgpt_response, shodan_results, solutions)
                   /\ UNCHANGED calls

\* ------------------------------------------------------- the load harness

\* ConcurrentQueryResult; `error` is <<>> for None and <<message>> otherwise.
ConcurrentQueryResult(query, total_time, success, error) ==
    [query |-> query, total_time |-> total_time, success |-> success, error |-> error]

\* What the harness's environment answers; a part of the handler's sets.
LoadTranslatorReplies ==
    {TransportFailure, Completion(ContentValid), Completion(ContentProse),
     Completion(ContentNoQuery)}
LoadSearchResponses ==
    {[kind |-> "api_error", matches |-> <<>>, error |-> "Invalid API key"],
     [kind |-> "ok", matches |-> <<>>, error |-> ""],
     [kind |-> "ok", matches |-> <<MatchFull>>, error |-> ""]}
LoadAdvisorReplies ==
    {AdvisorFailure, [ok |-> TRUE, content |-> "Upgrade the server", error |-> ""]}

\* time.time() - start_time, in whole ticks.
Elapsed == 1..MaxElapsed

\* The k-th query of a list under test: k characters long, so that the
\* queries of a list differ, and whitespace only when `blank`.
QueryText(k, blank) == [j \in 1..k |-> IF blank THEN 32 ELSE 97]
\* A query list of length len whose queries at the positions `blanks` are
\* whitespace only.
QueryList(len, blanks) == [k \in 1..len |-> QueryText(k, k \in blanks)]

RECURSIVE FillInnerNoBreak(_, _, _, _)
\* A plausible slip: the inner loop never breaks.
FillInnerNoBreak(ts, qs, j, n) ==
    IF j > Len(qs) THEN ts
    ELSE FillInnerNoBreak(Append(ts, qs[j]), qs, j + 1, n)

RECURSIVE FillInner(_, _, _, _)
\* `for query in queries` from its j-th element on: append a coroutine, break as
\* soon as there are n.
FillInner(ts, qs, j, n) ==
    IF j > Len(qs) THEN ts
    ELSE LET t == Append(ts, qs[j])
         IN  IF Len(t) >= n THEN t ELSE FillInner(t, qs, j + 1, n)

RECURSIVE FillOuter(_, _, _, _)
\* `for _ in range(concurrent_users)` from its i-th round on (i from 0).
FillOuter(ts, qs, i, n) ==
    IF i >= n THEN ts
    ELSE LET t == FillInner(ts, qs, 1, n)
         IN  IF Len(t) >= n THEN t ELSE FillOuter(t, qs, i + 1, n)

\* The queries of the coroutines run_concurrent_queries creates, in order.
BuildTasks(qs, users) == FillOuter(<<>>, qs, 0, users)


NoOutcome == [kind |-> "pending", value |-> ConcurrentQueryResult(<<>>, 0, FALSE, <<>>)]
Returned(r) == [kind |-> "returned", value |-> r]

\* One execute_single_query coroutine: its position, its locals, the
\* exception its except clause caught and what it returned.
NewTask(query) ==
    [query |-> query, pc |-> "created", chatgpt_response |-> PyNone,
     shodan_results |-> <<>>, solutions |-> <<>>, exc |-> NoExc,
     outcome |-> NoOutcome]

\* A plausible slip: the except clause is too narrow and the exception leaves
\* the coroutine.
Uncaught(task, e, elapsed) ==
    [task EXCEPT !.pc = "done", !.chatgpt_response = PyNone,
                 !.shodan_results = <<>>, !.solutions = <<>>, !.exc = e,
                 !.outcome = [kind |-> "raised", value |-> NoOutcome.value]]

\* A plausible slip: the exception is recorded, but the result says success.
CaughtAsSuccess(task, e, elapsed) ==
    [task EXCEPT !.pc = "done", !.chatgpt_response = PyNone,
                 !.shodan_results = <<>>, !.solutions = <<>>, !.exc = e,
                 !.outcome = Returned(
                     ConcurrentQueryResult(task.query, elapsed, TRUE, <<Str(e)>>))]

\* The except clause of execute_single_query: the failed result is returned
\* (the coroutine's locals go with its frame).
Caught(task, e, elapsed) ==
    [task EXCEPT !.pc = "done", !.chatgpt_response = PyNone,
                 !.shodan_results = <<>>, !.solutions = <<>>, !.exc = e,
                 !.outcome = Returned(
                     ConcurrentQueryResult(task.query, elapsed, FALSE, <<Str(e)>>))]

\* A plausible slip: an invocation whose advisor fell back to the sentinel
\* text is not counted as a success.
SucceededUnlessSentinel(task, elapsed) ==
    [task EXCEPT !.pc = "done", !.chatgpt_response = PyNone,
                 !.shodan_results = <<>>,
                 !.outcome = Returned(
                     ConcurrentQueryResult(task.query, elapsed,
                         \A k \in DOMAIN task.solutions :
                             task.solutions[k] # SolutionSentinel,
                         <<>>))]

\* The end of the try block of execute_single_query.  `solutions` stays as
\* get_security_solutions returned it: the coroutine awaits it and looks at
\* nothing in it.
Succeeded(task, elapsed) ==
    [task EXCEPT !.pc = "done", !.chatgpt_response = PyNone,
                 !.shodan_results = <<>>,
                 !.outcome = Returned(
                     ConcurrentQueryResult(task.query, elapsed, TRUE, <<>>))]

LoadInit ==
    /\ lpc = "idle"
    /\ queries = <<>>
    /\ concurrent_users = 0
    /\ tasks = <<>>
    /\ results = <<>>
    /\ analysis = <<>>

\* run_concurrent_queries up to its await: the coroutines are created and
\* handed to asyncio.gather.
Launch(qs, n) ==
    /\ lpc = "idle"
    /\ queries' = qs
    /\ concurrent_users' = n
    /\ tasks' = LET t == BuildTasks(qs, n)
                IN  [i \in 1..Len(t) |-> NewTask(t[i])]
    /\ lpc' = "gathering"
    /\ UNCHANGED <<svcVars, evalVars, results, analysis>>

\* A coroutine's first run: the clock is read and get_shodan_query validates
\* the query, then awaits the completion.
TaskStart(i, elapsed) ==
    /\ lpc = "gathering"
    /\ tasks[i].pc = "created"
    /\ LET v == GetShodanQueryValidate(tasks[i].query)
       IN  tasks' = [tasks EXCEPT ![i] =
                        IF v.ok THEN [@ EXCEPT !.pc = "await_translator"]
                        ELSE Caught(@, v.exc, elapsed)]
    /\ UNCHANGED <<svcVars, evalVars, lpc, queries, concurrent_users, results, analysis>>

\* The translator's completion answers coroutine i.
TaskTranslatorReply(i, reply, elapsed) ==
    /\ lpc = "gathering"
    /\ tasks[i].pc = "await_translator"
    /\ LET r == GetShodanQueryResume(reply)
           q == Subscript(r.value, "shodan_query")
       IN  tasks' = [tasks EXCEPT ![i] =
                        IF ~r.ok THEN Caught(@, r.exc, elapsed)
                        ELSE IF ~q.ok THEN Caught(@, q.exc, elapsed)
                        ELSE [@ EXCEPT !.pc = "await_search",
                                       !.chatgpt_response = r.value]]
    /\ UNCHANGED <<svcVars, evalVars, lpc, queries, concurrent_users, results, analysis>>

\* The search index answers coroutine i; get_security_solutions starts.
TaskSearchReply(i, resp, elapsed) ==
    /\ lpc = "gathering"
    /\ tasks[i].pc = "await_search"
    /\ LET r == ExecuteShodanQuery(resp)
       IN  tasks' = [tasks EXCEPT ![i] =
                        IF ~r.ok THEN Caught(@, r.exc, elapsed)
                        ELSE IF r.value = <<>> THEN Succeeded(@, elapsed)
                        ELSE [@ EXCEPT !.pc = "await_advisor",
                                       !.shodan_results = r.value]]
    /\ UNCHANGED <<svcVars, evalVars, lpc, queries, concurrent_users, results, analysis>>

\* One advisor completion answers coroutine i.
TaskAdvisorReply(i, reply, elapsed) ==
    /\ lpc = "gathering"
    /\ tasks[i].pc = "await_advisor"
    /\ LET solutions == Append(tasks[i].solutions, SolutionFromReply(reply))
       IN  tasks' = [tasks EXCEPT ![i] =
                        IF Len(solutions) < Len(@.shodan_results)
                        THEN [@ EXCEPT !.solutions = solutions]
                        ELSE Succeeded([@ EXCEPT !.solutions = solutions], elapsed)]
    /\ UNCHANGED <<svcVars, evalVars, lpc, queries, concurrent_users, results, analysis>>

\* [r for r in results if isinstance(r, ConcurrentQueryResult)]
OnlyResults(outcomes) == SelectSeq(outcomes, LAMBDA o : o.kind = "returned")

\* A plausible slip: the harness collects as soon as one coroutine is done
\* and returns what is there by then.
GatherFirstCompleted ==
    /\ lpc = "gathering"
    /\ \E i \in DOMAIN tasks : tasks[i].pc = "done"
    /\ results' = LET kept == OnlyResults([i \in DOMAIN tasks |-> tasks[i].outcome])
                  IN  [i \in DOMAIN kept |-> kept[i].value]
    /\ lpc' = "returned"
    /\ UNCHANGED <<svcVars, evalVars, queries, concurrent_users, tasks, analysis>>

\* asyncio.gather(*tasks, return_exceptions=True) completes once every
\* coroutine is done; run_concurrent_queries returns the results in the
\* order of the coroutines.
Gather ==
    /\ lpc = "gathering"
    /\ \A i \in DOMAIN tasks : tasks[i].pc = "done"
    /\ results' = LET kept == OnlyResults([i \in DOMAIN tasks |-> tasks[i].outcome])
                  IN  [i \in DOMAIN kept |-> kept[i].value]
    /\ lpc' = "returned"
    /\ UNCHANGED <<svcVars, evalVars, queries, concurrent_users, tasks, analysis>>


\* ------------------------------------------- the single-query evaluation harness

TimingResult(total, chatgpt, shodan, solution) ==
    [total |-> total, chatgpt |-> chatgpt, shodan |-> shodan, solution |-> solution]

\* What the harness's environment answers; a part of the handler's sets.
EvalTranslatorReplies == {TransportFailure, Completion(ContentValid)}
EvalSearchResponses ==
    {[kind |-> "api_error", matches |-> <<>>, error |-> "Invalid API key"],
     [kind |-> "ok", matches |-> <<>>, error |-> ""],
     [kind |-> "ok", matches |-> <<MatchFull>>, error |-> ""]}
EvalAdvisorReplies == {[ok |-> TRUE, content |-> "Upgrade the server", error |-> ""]}

\* One entry of the journal: what happened, to which query, at what time.
Event(ev, query, at) == [ev |-> ev, query |-> query, at |-> at]

NoMeasure ==
    [query |-> <<>>, start_total |-> 0, start |-> 0, chatgpt_time |-> 0,
     shodan_time |-> 0, shodan_results |-> <<>>, solutions |-> 0]

\* `for query in test_queries: for _ in range(iterations)`: the position after
\* pos, [query |-> 0, ...] when both loops are exhausted.
NextPosition(qs, n, pos) ==
    IF pos.iteration < n THEN [query |-> pos.query, iteration |-> pos.iteration + 1]
    ELSE IF pos.query < Len(qs) THEN [query |-> pos.query + 1, iteration |-> 1]
    ELSE [query |-> 0, iteration |-> 0]

\* The loops go on to the next attempt, or run_evaluation returns.
Advance ==
    LET next == NextPosition(test_queries, iterations, position)
    IN  /\ position' = next
        /\ epc' = IF next.query = 0 THEN "returned" ELSE "attempt"

\* Nothing written: no CSV rows, no JSON content.
NoFiles == [csv |-> <<>>, json |-> <<>>]

EvalInit ==
    /\ epc = "idle"
    /\ test_queries = <<>>
    /\ iterations = 0
    /\ position = [query |-> 0, iteration |-> 0]
    /\ measure = NoMeasure
    /\ eval_results = <<>>
    /\ now = 0
    /\ journal = <<>>
    /\ main_pc = "evaluating"
    /\ eval_analysis = PyNone
    /\ main_raised = NoExc
    /\ files = NoFiles

\* run_evaluation(test_queries, iterations) up to the first attempt.
RunEvaluation(qs, n) ==
    /\ epc = "idle"
    /\ test_queries' = qs
    /\ iterations' = n
    /\ eval_results' = <<>>
    /\ IF qs = <<>> \/ n = 0
       THEN /\ position' = [query |-> 0, iteration |-> 0]
            /\ epc' = "returned"
       ELSE /\ position' = [query |-> 1, iteration |-> 1]
            /\ epc' = "attempt"
    /\ UNCHANGED <<svcVars, loadVars, mainVars, measure, now, journal>>

\* A plausible slip: the first failure ends the run.
AttemptRaisedEndsRun(log, e) ==
    /\ journal' = Append(log, Event("raised", test_queries[position.query], now'))
    /\ measure' = NoMeasure
    /\ position' = [query |-> 0, iteration |-> 0]
    /\ epc' = "returned"
    /\ UNCHANGED eval_results

\* `except Exception as e: print(...)` after the events in log: nothing is
\* appended, no sleep is awaited, the loops go on.
AttemptRaised(log, e) ==
    /\ journal' = Append(log, Event("raised", test_queries[position.query], now'))
    /\ measure' = NoMeasure
    /\ Advance
    /\ UNCHANGED eval_results

\* measure_query_performance returned: the sample is appended and the sleep
\* is awaited.
AttemptReturned(sample) ==
    /\ journal' = Append(journal, Event("returned", test_queries[position.query], now'))
    /\ measure' = NoMeasure
    /\ eval_results' = Append(eval_results, sample)
    /\ epc' = "sleeping"
    /\ UNCHANGED position

\* One attempt begins: measure_query_performance(query) up to the completion
\* request get_shodan_query awaits.
MeasureStart ==
    /\ epc = "attempt"
    /\ UNCHANGED <<svcVars, loadVars, mainVars, test_queries, iterations, now>>
    /\ LET query == test_queries[position.query]
           v == GetShodanQueryValidate(query)
       IN  IF ~v.ok
           THEN AttemptRaised(Append(journal, Event("started", query, now)), v.exc)
           ELSE /\ journal' = Append(journal, Event("started", query, now))
                /\ measure' = [NoMeasure EXCEPT !.query = query,
                                                !.start_total = now, !.start = now]
                /\ epc' = "await_translator"
                /\ UNCHANGED <<position, eval_results>>

\* The translator's completion answers after one tick.
MeasureTranslatorReply(reply) ==
    /\ epc = "await_translator"
    /\ now' = now + 1
    /\ LET r == GetShodanQueryResume(reply)
           q == IF r.ok THEN Subscript(r.value, "shodan_query") ELSE r
       IN  IF ~q.ok
           THEN AttemptRaised(journal, q.exc)
           ELSE /\ measure' = [measure EXCEPT !.chatgpt_time = now' - measure.start,
                                              !.start = now']
                /\ epc' = "await_search"
                /\ UNCHANGED <<position, eval_results, journal>>
    /\ UNCHANGED <<svcVars, loadVars, mainVars, test_queries, iterations>>

\* The search index answers after one tick; without records
\* get_security_solutions returns at once and the attempt is complete.
MeasureSearchReply(resp) ==
    /\ epc = "await_search"
    /\ now' = now + 1
    /\ LET r == ExecuteShodanQuery(resp)
       IN  IF ~r.ok
           THEN AttemptRaised(journal, r.exc)
           ELSE IF r.value = <<>>
           THEN AttemptReturned(TimingResult(now' - measure.start_total,
                                             measure.chatgpt_time,
                                             now' - measure.start, 0))
           ELSE /\ measure' = [measure EXCEPT !.shodan_time = now' - measure.start,
                                              !.start = now',
                                              !.shodan_results = r.value]
                /\ epc' = "await_advisor"
                /\ UNCHANGED <<position, eval_results, journal>>
    /\ UNCHANGED <<svcVars, loadVars, mainVars, test_queries, iterations>>

\* One advisor completion answers after one tick.
MeasureAdvisorReply(reply) ==
    /\ epc = "await_advisor"
    /\ now' = now + 1
    /\ IF measure.solutions + 1 < Len(measure.shodan_results)
       THEN /\ measure' = [measure EXCEPT !.solutions = measure.solutions + 1]
            /\ UNCHANGED <<epc, position, eval_results, journal>>
       ELSE AttemptReturned(TimingResult(now' - measure.start_total,
                                         measure.chatgpt_time,
                                         measure.shodan_time,
                                         now' - measure.start))
    /\ UNCHANGED <<svcVars, loadVars, mainVars, test_queries, iterations>>

\* asyncio.sleep(1) ends.
SleepDone ==
    /\ epc = "sleeping"
    /\ now' = now + 1
    /\ journal' = Append(journal, Event("slept", test_queries[position.query], now'))
    /\ Advance
    /\ UNCHANGED <<svcVars, loadVars, mainVars, test_queries, iterations, measure, eval_results>>

\* ------------------------------------------------------------ the statistics

Abs(n) == IF n < 0 THEN -n ELSE n

RECURSIVE GCD(_, _)
GCD(a, b) == IF b = 0 THEN a ELSE GCD(b, a % b)

\* The fraction n/d (d > 0) in lowest terms: the model's number for a float.
Rat(n, d) == LET g == GCD(Abs(n), d) IN [num |-> n \div g, den |-> d \div g]

RECURSIVE Sum(_)
Sum(xs) == IF xs = <<>> THEN 0 ELSE Head(xs) + Sum(Tail(xs))

RECURSIVE SumSq(_)
SumSq(xs) == IF xs = <<>> THEN 0 ELSE Head(xs) * Head(xs) + SumSq(Tail(xs))

RECURSIVE Insert(_, _)
Insert(x, sorted) ==
    IF sorted = <<>> THEN <<x>>
    ELSE IF x <= Head(sorted) THEN <<x>> \o sorted
    ELSE <<Head(sorted)>> \o Insert(x, Tail(sorted))

RECURSIVE Sorted(_)
Sorted(xs) == IF xs = <<>> THEN <<>> ELSE Insert(Head(xs), Sorted(Tail(xs)))

\* statistics.mean
Mean(xs) == Rat(Sum(xs), Len(xs))

\* statistics.median: the middle value, or the mean of the two middle ones.
Median(xs) ==
    LET s == Sorted(xs)
        n == Len(xs)
    IN  IF n % 2 = 1 THEN Rat(s[(n + 1) \div 2], 1)
        ELSE Rat(s[n \div 2] + s[n \div 2 + 1], 2)

\* The sample variance, whose square root statistics.stdev returns.
Variance(xs) ==
    LET n == Len(xs)
    IN  Rat(n * SumSq(xs) - Sum(xs) * Sum(xs), n * (n - 1))

\* A plausible slip: the value at the rank rounded down, no interpolation.
PercentileLower(xs, q) ==
    LET s == Sorted(xs)
        n == Len(xs)
    IN  Rat(s[((q * (n - 1)) \div 100) + 1], 1)

\* np.percentile(xs, q): linear interpolation at rank q/100 * (n - 1).
Percentile(xs, q) ==
    LET s == Sorted(xs)
        n == Len(xs)
        lo == (q * (n - 1)) \div 100
        rem == q * (n - 1) - 100 * lo
    IN  IF rem = 0 THEN Rat(s[lo + 1], 1)
        ELSE Rat(100 * s[lo + 1] + rem * (s[lo + 2] - s[lo + 1]), 100)

Zero == Rat(0, 1)

\* A plausible slip: the times are taken from every result, whatever its flag.
TimesOfAll(rs, success) == [i \in DOMAIN rs |-> rs[i].total_time]

TimesWhere(rs, success) ==
    LET sel == SelectSeq(rs, LAMBDA r : r.success = success)
    IN  [i \in DOMAIN sel |-> sel[i].total_time]

\* A plausible slip: a run without results counts as fully successful.
SuccessRateVacuous(rs) ==
    IF rs # <<>> THEN Rat(100 * Len(TimesWhere(rs, TRUE)), Len(rs)) ELSE Rat(100, 1)

\* A plausible slip: the rate is taken over the failed results.
SuccessRateOfFailures(rs) ==
    IF rs # <<>> THEN Rat(100 * Len(TimesWhere(rs, FALSE)), Len(rs)) ELSE Zero

\* len(successful_times) / len(results) * 100 if results else 0
SuccessRate(rs) ==
    IF rs # <<>> THEN Rat(100 * Len(TimesWhere(rs, TRUE)), Len(rs)) ELSE Zero

\* LoadTester.analyze_results
AnalyzeResults(rs) ==
    LET successful_times == TimesWhere(rs, TRUE)
        failed_times == TimesWhere(rs, FALSE)
        some == successful_times # <<>>
    IN  [total_queries |-> Len(rs),
         successful_queries |-> Len(successful_times),
         failed_queries |-> Len(failed_times),
         success_rate |-> SuccessRate(rs),
         response_times |->
            [mean |-> IF some THEN Mean(successful_times) ELSE Zero,
             median |-> IF some THEN Median(successful_times) ELSE Zero,
             variance |-> IF Len(successful_times) > 1
                          THEN Variance(successful_times) ELSE Zero,
             min |-> IF some THEN Rat(Sorted(successful_times)[1], 1) ELSE Zero,
             max |-> IF some
                     THEN Rat(Sorted(successful_times)[Len(successful_times)], 1)
                     ELSE Zero,
             percentile_95 |-> IF some THEN Percentile(successful_times, 95) ELSE Zero]]

\* main(): the results of the run are analyzed.
Analyze ==
    /\ lpc = "returned"
    /\ analysis' = AnalyzeResults(results)
    /\ lpc' = "analyzed"
    /\ UNCHANGED <<svcVars, evalVars, queries, concurrent_users, tasks, results>>

NextLoad ==
    \/ \E len \in 0..MaxQueries, n \in 0..MaxUsers :
          \E blanks \in SUBSET (1..len) : Launch(QueryList(len, blanks), n)
    \/ \E i \in DOMAIN tasks, elapsed \in Elapsed : TaskStart(i, elapsed)
    \/ \E i \in DOMAIN tasks, reply \in LoadTranslatorReplies, elapsed \in Elapsed :
          TaskTranslatorReply(i, reply, elapsed)
    \/ \E i \in DOMAIN tasks, resp \in LoadSearchResponses, elapsed \in Elapsed :
          TaskSearchReply(i, resp, elapsed)
    \/ \E i \in DOMAIN tasks, reply \in LoadAdvisorReplies, elapsed \in Elapsed :
          TaskAdvisorReply(i, reply, elapsed)
    \/ Gather
    \/ Analyze


\* ------------------------------------------------------- evaluation.main

\* A plausible slip: analyze_results guards the empty list as the load
\* harness's analysis does, and returns a summary of zeros.
EvalAnalyzeResultsGuarded(rs) ==
    LET times(f) == [i \in DOMAIN rs |-> rs[i][f]]
        some == rs # <<>>
    IN  Ok([total |->
               [mean |-> IF some THEN Mean(times("total")) ELSE Zero,
                median |-> IF some THEN Median(times("total")) ELSE Zero,
                variance |-> IF Len(rs) > 1 THEN Variance(times("total")) ELSE Zero,
                min |-> IF some THEN Rat(Sorted(times("total"))[1], 1) ELSE Zero,
                max |-> IF some THEN Rat(Sorted(times("total"))[Len(rs)], 1) ELSE Zero],
            components |->
               [chatgpt |-> IF some THEN Mean(times("chatgpt")) ELSE Zero,
                shodan |-> IF some THEN Mean(times("shodan")) ELSE Zero,
                solution |-> IF some THEN Mean(times("solution")) ELSE Zero]])

\* analyze_results of evaluation.py: statistics.mean, the first thing the
\* dict evaluates, raises StatisticsError on an empty list.
EvalAnalyzeResults(rs) ==
    LET times(f) == [i \in DOMAIN rs |-> rs[i][f]]
    IN  IF rs = <<>>
        THEN Raise(Exc("StatisticsError", "mean requires at least one data point"))
        ELSE Ok([total |->
                    [mean |-> Mean(times("total")),
                     median |-> Median(times("total")),
                     variance |-> IF Len(rs) > 1 THEN Variance(times("total")) ELSE Zero,
                     min |-> Rat(Sorted(times("total"))[1], 1),
                     max |-> Rat(Sorted(times("total"))[Len(rs)], 1)],
                 components |->
                    [chatgpt |-> Mean(times("chatgpt")),
                     shodan |-> Mean(times("shodan")),
                     solution |-> Mean(times("solution"))]])

CsvHeader == <<"Total Time", "ChatGPT Time", "Shodan Time", "Solution Time">>

\* save_results: the header row and one row per sample, then the analysis.
SaveResults(rs, summary) ==
    [csv |-> <<CsvHeader>> \o
             [i \in DOMAIN rs |->
                 <<rs[i].total, rs[i].chatgpt, rs[i].shodan, rs[i].solution>>],
     json |-> <<summary>>]

\* main after run_evaluation returned, which runs to its end without another
\* await: analyze_results returns and save_results writes the two files, or
\* the exception of analyze_results ends main before anything is written.
MainFinish ==
    /\ epc = "returned"
    /\ main_pc = "evaluating"
    /\ LET r == EvalAnalyzeResults(eval_results)
       IN  IF r.ok
           THEN /\ eval_analysis' = r.value
                /\ files' = SaveResults(eval_results, r.value)
                /\ main_pc' = "saved"
                /\ UNCHANGED main_raised
           ELSE /\ main_raised' = r.exc
                /\ main_pc' = "failed"
                /\ UNCHANGED <<eval_analysis, files>>
    /\ UNCHANGED <<svcVars, loadVars, epc, test_queries, iterations, position,
                   measure, eval_results, now, journal>>

NextEval ==
    \/ \E len \in 0..MaxEvalQueries, n \in 0..MaxIterations :
          \E blanks \in SUBSET (1..len) : RunEvaluation(QueryList(len, blanks), n)
    \/ MeasureStart
    \/ \E reply \in EvalTranslatorReplies : MeasureTranslatorReply(reply)
    \/ \E resp \in EvalSearchResponses : MeasureSearchReply(resp)
    \/ \E reply \in EvalAdvisorReplies : MeasureAdvisorReply(reply)
    \/ SleepDone
    \/ MainFinish

\* ------------------------------------- analyze_results on its own, as a function

\* The results handed to analyze_results: up to MaxSamples results in any
\* order, successful ones with a time in 1..MaxSamples, failed ones with a
\* time at either end of the range.
FailedTimes == {1, MaxSamples + 1}
SampleResult(t, success) ==
    ConcurrentQueryResult(<<97>>, t, success, IF success THEN <<>> ELSE <<"error">>)
SampleEntries ==
    {SampleResult(t, TRUE) : t \in 1..MaxSamples}
        \cup {SampleResult(t, FALSE) : t \in FailedTimes}
SampleRuns == SeqsUpTo(SampleEntries, MaxSamples)

InitStats ==
    /\ SvcInit
    /\ EvalInit
    /\ lpc = "returned"
    /\ queries = <<>>
    /\ concurrent_users = 0
    /\ tasks = <<>>
    /\ results \in SampleRuns
    /\ analysis = <<>>

\* analyze_results is applied again to the same results with the time of the
\* failed result i replaced by t.
ReanalyzeWithFailedTime(i, t) ==
    /\ lpc = "analyzed"
    /\ ~results[i].success
    /\ results[i].total_time # t
    /\ results' = [results EXCEPT ![i].total_time = t]
    /\ analysis' = AnalyzeResults(results')
    /\ UNCHANGED <<svcVars, evalVars, lpc, queries, concurrent_users, tasks>>

NextStats ==
    \/ Analyze
    \/ \E i \in DOMAIN results, t \in FailedTimes : ReanalyzeWithFailedTime(i, t)

\* -------------------------------------------------------- the specifications

Init == SvcInit /\ LoadInit /\ EvalInit

\* One HTTP request after another.
Next ==
    \/ \E q \in Questions, limit \in 1..MaxLimit : Receive(q, limit)
    \/ \E reply \in TranslatorReplies : TranslatorReply(reply)
    \/ \E resp \in SearchResponses : SearchReply(resp)
    \/ \E reply \in AdvisorReplies : AdvisorReply(reply)

Spec == Init /\ [][Next]_vars

\* One run of the load harness.
SpecLoad == Init /\ [][NextLoad]_vars

\* One run of the single-query evaluation harness and of its main.
SpecEval == Init /\ [][NextEval]_vars

\* analyze_results applied to every bounded list of results.
SpecStats == InitStats /\ [][NextStats]_vars

\* ------------------------------------------------- claims about the handler

Blank(q) == \A i \in DOMAIN q : q[i] \in Whitespace
CallsTo(svc) == Cardinality({i \in DOMAIN calls : calls[i].svc = svc})
AdvisorCalls == SelectSeq(calls, LAMBDA c : c.by = "advisor")
InReport(piece) == \E i \in DOMAIN response.guidance : response.guidance[i] = piece
SectionsInReport ==
    Cardinality({i \in DOMAIN response.guidance :
                    \E k \in 1..Len(response.guidance) :
                        response.guidance[i] = ResultLabel(k)})

\* C1: when process_query reports the failure of an empty or whitespace-only
\* question, no completion-service call and no search-service call has been
\* made for that request.
C1_BlankQuestionMakesNoCall ==
    (pc = "done" /\ Blank(request.query)) =>
        /\ response.status >= 400
        /\ CallsTo("completion") = 0
        /\ CallsTo("search") = 0

C1_Witness ==
    /\ pc = "done"
    /\ request.query = <<32, 32>>
    /\ response.status >= 400
    /\ calls = <<>>

\* C2: at the HTTP boundary an empty query is answered with status 400, and
\* every other failure of the pipeline with status 500 and a detail that
\* carries the failure's message.
C2_EmptyIs400FailureIs500 ==
    pc = "done" =>
        /\ Blank(request.query) => response.status = 400
        /\ (~Blank(request.query) /\ raised # NoExc) =>
              /\ response.status = 500
              /\ response.detail = "Error processing query: " \o Str(raised)

\* C3: for a non-empty question process_query either returns a complete
\* report holding the query and the explanation the translator returned, or
\* fails with a reported error and no report; an exception that escapes any
\* step never leaves a report behind.
C3_ReportOrFailure ==
    (pc = "done" /\ ~Blank(request.query)) =>
        \/ /\ response.status = 200
           /\ raised = NoExc
           /\ chatgpt_response.kind = "dict"
           /\ {"shodan_query", "explanation"} \subseteq DOMAIN chatgpt_response.val
           /\ InReport(chatgpt_response.val.shodan_query)
           /\ InReport(chatgpt_response.val.explanation)
           /\ Len(security_solutions) = Len(shodan_results)
           /\ SectionsInReport = Len(shodan_results)
        \/ /\ response.status = 500
           /\ raised # NoExc
           /\ response.guidance = <<>>
           /\ response.detail = "Error processing query: " \o Str(raised)

C3_Witness ==
    /\ pc = "done"
    /\ response.status = 200
    /\ Len(shodan_results) = 2
    /\ InReport("product:nginx country:US")
    /\ InReport("Nginx servers located in the US")

\* C4: the advisor's solutions are aligned with its input records: solution i
\* is the completion's answer to the prompt built from record i, or the
\* sentinel when that completion failed; failures leave the other positions
\* alone, and the batch ends with one solution per record.
C4_SolutionsAligned ==
    /\ Len(security_solutions) = Len(answers)
    /\ Len(security_solutions) <= Len(shodan_results)
    /\ \A i \in DOMAIN security_solutions :
          /\ AdvisorCalls[i].arg = AnalysisPrompt(shodan_results[i])
          /\ security_solutions[i] =
                IF answers[i].ok THEN answers[i].content
                ELSE "Unable to generate solution for this result."
    /\ (pc = "done" /\ shodan_results # <<>>) =>
          Len(security_solutions) = Len(shodan_results)

C4_Witness ==
    /\ pc = "done"
    /\ Len(shodan_results) = 2
    /\ ~answers[1].ok
    /\ answers[2].ok
    /\ security_solutions =
          <<"Unable to generate solution for this result.", "Close the port">>
    /\ response.status = 200

TwoFields(content) ==
    /\ content.kind = "json"
    /\ content.value.kind = "dict"
    /\ {"shodan_query", "explanation"} \subseteq DOMAIN content.value.val

\* C5: whenever the completion's text is not parseable as the two named
\* fields, get_shodan_query returns the sentinel query and the search stage
\* still runs.
C5_FormatFailureNeverAborts ==
    (pc \in {"await_search", "await_advisor", "done"}
        /\ translator_answer.ok
        /\ translator_answer.content.kind \in {"text", "json"}
        /\ ~TwoFields(translator_answer.content)) =>
        /\ chatgpt_response = SentinelQuery
        /\ CallsTo("search") = 1

\* -------------------------------------------- claims about the load harness

Launched == lpc # "idle"
Returns == lpc \in {"returned", "analyzed"}
Cycled(i) == queries[((i - 1) % Len(queries)) + 1]
Successes == Cardinality({i \in DOMAIN results : results[i].success})

\* C6: for a non-empty query list and a concurrency level N >= 1 exactly N
\* invocations are launched, invocation i (from 0) on queries[i mod L], and
\* the results come back in launch order.
C6_ExactlyNCycled ==
    (Launched /\ queries # <<>> /\ concurrent_users >= 1) =>
        /\ Len(tasks) = concurrent_users
        /\ \A i \in DOMAIN tasks : tasks[i].query = Cycled(i)
        /\ Returns =>
              /\ Len(results) = concurrent_users
              /\ \A i \in DOMAIN results : results[i].query = Cycled(i)

C6_Witness ==
    /\ lpc = "returned"
    /\ Len(queries) = 2
    /\ concurrent_users = 3
    /\ Len(results) = 3
    /\ results[3].query = queries[1]
    /\ results[2].query = queries[2]

C7_AllAwaited ==
    /\ \A i \in DOMAIN tasks :
          tasks[i].exc # NoExc =>
              /\ tasks[i].pc = "done"
              /\ tasks[i].outcome.kind = "returned"
              /\ ~tasks[i].outcome.value.success
    /\ Returns =>
          /\ \A i \in DOMAIN tasks : tasks[i].pc = "done"
          /\ Len(results) = Len(tasks)
          /\ \A i \in DOMAIN results : results[i] = tasks[i].outcome.value

C7_SiblingsUntouched ==
    lpc = "gathering" =>
        /\ DOMAIN tasks' = DOMAIN tasks
        /\ \A i \in DOMAIN tasks :
              /\ tasks[i].pc = "done" => tasks'[i] = tasks[i]
              /\ tasks'[i] # tasks[i] =>
                    \A j \in DOMAIN tasks \ {i} : tasks'[j] = tasks[j]

\* C7: every invocation catches its own exception and records success=false;
\* a step of one invocation leaves every other invocation as it was, a
\* finished invocation stays as it finished, and run_concurrent_queries
\* returns only when every launched invocation is done, with one result per
\* launched invocation.
C7_FailureIsolation == [](C7_AllAwaited) /\ [][C7_SiblingsUntouched]_vars

C7_Witness ==
    /\ lpc = "returned"
    /\ Len(tasks) = 3
    /\ Len(results) = 3
    /\ results[1].success
    /\ ~results[2].success
    /\ results[3].success

\* C8: an invocation that raised is returned as a result with success=false
\* and error = the exception's message; success=true exactly when nothing
\* was raised, and then error is None.  An empty query is such a failure.
C8_AbortBecomesFailedResult ==
    \A i \in DOMAIN tasks :
        tasks[i].pc = "done" =>
            LET r == tasks[i].outcome.value
            IN  /\ tasks[i].outcome.kind = "returned"
                /\ r.success <=> tasks[i].exc = NoExc
                /\ r.success => r.error = <<>>
                /\ ~r.success => r.error = <<Str(tasks[i].exc)>>
                /\ Blank(tasks[i].query) =>
                      /\ ~r.success
                      /\ tasks[i].exc.type = "HTTPException"

C8_Witness ==
    /\ Len(tasks) = 2
    /\ tasks[1].pc = "done"
    /\ tasks[2].pc = "done"
    /\ tasks[1].outcome.value.error =
          <<"500: Error generating Shodan query: Connection error.">>
    /\ tasks[2].outcome.value.error =
          <<"500: Error generating Shodan query: Empty question provided">>
    /\ ~tasks[1].outcome.value.success
    /\ ~tasks[2].outcome.value.success

\* C9: with an empty query list no invocation is launched for any concurrency
\* level, run_concurrent_queries returns the empty sequence, and
\* analyze_results of it returns a summary with success_rate 0.
C9_EmptyListGivesNoResults ==
    (Launched /\ queries = <<>>) =>
        /\ tasks = <<>>
        /\ lpc = "gathering" => ENABLED Gather
        /\ Returns => results = <<>>
        /\ lpc = "returned" => ENABLED Analyze
        /\ lpc = "analyzed" =>
              /\ analysis.total_queries = 0
              /\ analysis.success_rate = [num |-> 0, den |-> 1]

C9_Witness ==
    /\ lpc = "analyzed"
    /\ queries = <<>>
    /\ concurrent_users = 3
    /\ results = <<>>
    /\ analysis.success_rate = [num |-> 0, den |-> 1]

\* C10: success_rate is successes/total*100, and 0 when there is no result;
\* when every invocation succeeded it is 100 with failed_queries = 0, and
\* when every invocation failed it is 0.
C10_SuccessRate ==
    lpc = "analyzed" =>
        LET total == Len(results)
            rate == analysis.success_rate
        IN  /\ rate.den > 0
            /\ total > 0 => rate.num * total = 100 * Successes * rate.den
            /\ total = 0 => rate = [num |-> 0, den |-> 1]
            /\ (total > 0 /\ Successes = total) =>
                  /\ rate = [num |-> 100, den |-> 1]
                  /\ analysis.failed_queries = 0
            /\ Successes = 0 => rate = [num |-> 0, den |-> 1]
            /\ analysis.total_queries = total
            /\ analysis.successful_queries = Successes
            /\ analysis.failed_queries = total - Successes

C10_Witness ==
    /\ lpc = "analyzed"
    /\ Len(results) = 3
    /\ \A i \in DOMAIN results : results[i].success
    /\ analysis.success_rate = [num |-> 100, den |-> 1]
    /\ analysis.failed_queries = 0

\* C20: the result list is not written while the invocations run: each
\* invocation writes its own result only, once, when it finishes; the list
\* is put together in one step of run_concurrent_queries after every
\* invocation is done, and then holds every invocation's result exactly once,
\* at the invocation's launch position, whatever the interleaving was.
C20_ListAssembledAfterAll ==
    /\ lpc \in {"idle", "gathering"} => results = <<>>
    /\ Returns =>
          /\ Len(results) = Len(tasks)
          /\ \A i \in DOMAIN tasks :
                /\ tasks[i].outcome.kind = "returned"
                /\ results[i] = tasks[i].outcome.value
                /\ results[i].query = tasks[i].query
C20_OnlyOrchestratorWritesList ==
    /\ results' # results =>
          /\ lpc = "gathering" /\ lpc' = "returned"
          /\ tasks' = tasks
          /\ \A i \in DOMAIN tasks : tasks[i].pc = "done"
    /\ lpc = "gathering" =>
          \A i \in DOMAIN tasks :
              tasks'[i].outcome # tasks[i].outcome =>
                  /\ tasks[i].outcome = NoOutcome
                  /\ tasks'[i].pc = "done"
                  /\ tasks'[i].outcome.kind = "returned"
                  /\ tasks'[i].outcome.value.query = tasks[i].query
C20_NoSharedResultList ==
    [](C20_ListAssembledAfterAll) /\ [][C20_OnlyOrchestratorWritesList]_vars

C20_Witness ==
    /\ lpc = "returned"
    /\ Len(queries) = 3
    /\ concurrent_users = 3
    /\ Len(results) = 3
    /\ ~results[1].success
    /\ results[2].success
    /\ results[3].success
    /\ \A i \in 1..3 : results[i].query = queries[i]


\* C21: a degraded invocation counts as a success.  When the translator fell
\* back to its sentinel query, or the advisor to its sentinel text for some or
\* all records, and no exception left the three stages, execute_single_query
\* returns success = True; a run whose every invocation ended that way has
\* success_rate 100.
C21_DegradedIsSuccess ==
    /\ \A i \in DOMAIN tasks :
          (tasks[i].pc = "done" /\ tasks[i].exc = NoExc) =>
              /\ tasks[i].outcome.kind = "returned"
              /\ tasks[i].outcome.value.success
              /\ tasks[i].outcome.value.error = <<>>
    /\ \A i \in DOMAIN tasks :
          (\E k \in DOMAIN tasks[i].solutions : tasks[i].solutions[k] = SolutionSentinel) =>
              /\ tasks[i].exc = NoExc
              /\ tasks[i].pc = "done" => tasks[i].outcome.value.success
    /\ (/\ lpc = "analyzed"
        /\ tasks # <<>>
        /\ \A i \in DOMAIN tasks :
              /\ tasks[i].solutions # <<>>
              /\ \A k \in DOMAIN tasks[i].solutions :
                    tasks[i].solutions[k] = SolutionSentinel) =>
          /\ analysis.success_rate = [num |-> 100, den |-> 1]
          /\ analysis.failed_queries = 0
C21_SentinelQueryGoesOn ==
    lpc = "gathering" =>
        \A i \in DOMAIN tasks :
            /\ (tasks[i].pc = "await_translator"
                    /\ tasks'[i].chatgpt_response = SentinelQuery) =>
                  /\ tasks'[i].pc = "await_search"
                  /\ tasks'[i].exc = NoExc
            /\ (tasks[i].chatgpt_response = SentinelQuery
                    /\ tasks'[i].pc = "done" /\ tasks'[i].exc = NoExc) =>
                  tasks'[i].outcome.value.success
C21_DegradedCountsAsSuccess ==
    [](C21_DegradedIsSuccess) /\ [][C21_SentinelQueryGoesOn]_vars

C21_Witness ==
    /\ lpc = "analyzed"
    /\ Len(tasks) = 2
    /\ \A i \in DOMAIN tasks : tasks[i].solutions = <<SolutionSentinel>>
    /\ \A i \in DOMAIN results : results[i].success
    /\ analysis.success_rate = [num |-> 100, den |-> 1]
    /\ analysis.successful_queries = 2


\* ------------------------------------------------ claims about the statistics

SuccIdx == {i \in DOMAIN results : results[i].success}
RECURSIVE TimeSum(_)
TimeSum(S) ==
    IF S = {} THEN 0
    ELSE LET i == CHOOSE j \in S : TRUE
         IN  results[i].total_time + TimeSum(S \ {i})
RECURSIVE TimeSqSum(_)
TimeSqSum(S) ==
    IF S = {} THEN 0
    ELSE LET i == CHOOSE j \in S : TRUE
         IN  results[i].total_time * results[i].total_time + TimeSqSum(S \ {i})
\* How many successful results have a time at most / at least the fraction x.
AtMost(x) == Cardinality({i \in SuccIdx : results[i].total_time * x.den <= x.num})
AtLeast(x) == Cardinality({i \in SuccIdx : results[i].total_time * x.den >= x.num})

\* C11: mean, median, min, max, the standard deviation (through its square)
\* and p95 are those of the successful results' times only: every statistic
\* is 0 when no result succeeded, and analysing again after the time of a
\* failed result was changed gives the same statistics.
C11_OverSuccessesOnly ==
    lpc = "analyzed" =>
        LET n == Cardinality(SuccIdx)
            rt == analysis.response_times
        IN  /\ n = 0 =>
                \A f \in DOMAIN rt : rt[f] = [num |-> 0, den |-> 1]
            /\ n > 0 =>
                /\ rt.mean.num * n = rt.mean.den * TimeSum(SuccIdx)
                /\ rt.min.den = 1 /\ rt.max.den = 1
                /\ \E i \in SuccIdx : results[i].total_time = rt.min.num
                /\ \E i \in SuccIdx : results[i].total_time = rt.max.num
                /\ \A i \in SuccIdx : /\ rt.min.num <= results[i].total_time
                                      /\ results[i].total_time <= rt.max.num
                /\ 2 * AtMost(rt.median) >= n
                /\ 2 * AtLeast(rt.median) >= n
            /\ n > 1 =>
                rt.variance.num * n * (n - 1) =
                    rt.variance.den * (n * TimeSqSum(SuccIdx)
                                        - TimeSum(SuccIdx) * TimeSum(SuccIdx))
            /\ n = 1 => rt.variance = [num |-> 0, den |-> 1]
C11_FailedTimeIrrelevant ==
    (lpc = "analyzed" /\ lpc' = "analyzed") =>
        analysis'.response_times = analysis.response_times
C11_SuccessfulTimesOnly ==
    [](C11_OverSuccessesOnly) /\ [][C11_FailedTimeIrrelevant]_vars

C11_Witness ==
    /\ lpc = "analyzed"
    /\ Len(results) = 3
    /\ results[1] = SampleResult(2, TRUE)
    /\ results[2] = SampleResult(MaxSamples + 1, FALSE)
    /\ results[3] = SampleResult(4, TRUE)
    /\ analysis.response_times.mean = [num |-> 3, den |-> 1]
    /\ analysis.response_times.max = [num |-> 4, den |-> 1]
    /\ analysis.response_times.variance = [num |-> 2, den |-> 1]

\* The k-th smallest time among the successful results.
OrderStat(k) ==
    CHOOSE v \in {results[i].total_time : i \in SuccIdx} :
        /\ Cardinality({i \in SuccIdx : results[i].total_time < v}) < k
        /\ k <= Cardinality({i \in SuccIdx : results[i].total_time <= v})

\* C17: p95 is the linear interpolation between the order statistics around
\* the fractional rank 0.95 * (n - 1) of the n successful times; for the
\* times 1, 2, 3, 4, 5 (in any order) it is 4.8.
C17_P95Interpolates ==
    (lpc = "analyzed" /\ SuccIdx # {}) =>
        LET n == Cardinality(SuccIdx)
            p == analysis.response_times.percentile_95
            below == (95 * (n - 1)) \div 100
            hundredths == 95 * (n - 1) - 100 * below
        IN  /\ p.den > 0
            /\ hundredths = 0 => p = [num |-> OrderStat(below + 1), den |-> 1]
            /\ hundredths > 0 =>
                  100 * p.num =
                      p.den * (100 * OrderStat(below + 1)
                               + hundredths * (OrderStat(below + 2) - OrderStat(below + 1)))
            /\ (n = 5 /\ {results[i].total_time : i \in SuccIdx} = 1..5) =>
                  p = [num |-> 24, den |-> 5]

C17_Witness ==
    /\ lpc = "analyzed"
    /\ results = <<SampleResult(3, TRUE), SampleResult(1, TRUE), SampleResult(5, TRUE),
                   SampleResult(2, TRUE), SampleResult(4, TRUE)>>
    /\ analysis.response_times.percentile_95 = [num |-> 24, den |-> 5]


\* ------------------------------------------- claims about the search executor

\* C12: execute_shodan_query never returns more than `limit` records, for
\* every query, every positive limit and every answer of the search index.
C12_AtMostLimitRecords ==
    Len(shodan_results) <= request.limit

HostRecordKeys ==
    {"ip", "port", "organization", "location", "timestamp", "product",
     "version", "vulns"}

\* C13: whatever fields the matches of an answer lack or carry malformed,
\* the search returns one record with all eight keys per match, in the
\* order of the answer; no single match aborts the search.
C13_StepFormatsEveryMatch ==
    \A resp \in SearchResponses :
        (resp.kind = "ok" /\ SearchReply(resp)) =>
            /\ Len(shodan_results') = Len(resp.matches)
            /\ \A i \in DOMAIN resp.matches :
                  /\ DOMAIN shodan_results'[i] = HostRecordKeys
                  /\ shodan_results'[i].ip = Get(resp.matches[i], "ip_str", "N/A")
C13_EveryMatchFormatted == [][C13_StepFormatsEveryMatch]_vars

\* --------------------------------------------------- claims about the report

PositionsOf(piece) == {p \in DOMAIN response.guidance : response.guidance[p] = piece}
IsLabel(p) ==
    \E k \in 1..Len(response.guidance) :
        response.guidance[p] \in {ResultLabel(k), SolutionLabel(k)}
VulnLine(result) == "Vulnerabilities: " \o JoinStr(", ", result.vulns) \o "\n"

\* C18: a report has exactly one result section per host record the search
\* returned, numbered from 1 in the records' order; section i is followed at
\* once by the solution at index i; the vulnerability line is in section i
\* exactly when record i has vulnerabilities.
C18_OneSectionPerRecord ==
    response.status = 200 =>
        LET G == response.guidance
            n == Len(shodan_results)
            R(i) == CHOOSE p \in PositionsOf(ResultLabel(i)) : TRUE
            S(i) == CHOOSE p \in PositionsOf(SolutionLabel(i)) : TRUE
        IN  /\ Cardinality({p \in DOMAIN G : IsLabel(p)}) = 2 * n
            /\ \A i \in 1..n :
                  /\ Cardinality(PositionsOf(ResultLabel(i))) = 1
                  /\ Cardinality(PositionsOf(SolutionLabel(i))) = 1
                  /\ R(i) < S(i)
                  /\ \A p \in (R(i) + 1)..(S(i) - 1) : ~IsLabel(p)
                  /\ i < n => S(i) < R(i + 1)
                  /\ G[R(i) + 1] = "IP: " \o shodan_results[i].ip \o "\n"
                  /\ G[S(i) + 1] = security_solutions[i]
                  /\ (shodan_results[i].vulns # <<>>) <=>
                        (\E p \in R(i)..S(i) : G[p] = VulnLine(shodan_results[i]))
                  /\ S(i) - R(i) = IF shodan_results[i].vulns # <<>> THEN 7 ELSE 6

C18_Witness ==
    /\ response.status = 200
    /\ Len(shodan_results) = 2
    /\ shodan_results[1].vulns = <<>>
    /\ shodan_results[2].vulns # <<>>
    /\ PositionsOf(VulnLine(shodan_results[2])) # {}
    /\ PositionsOf(ResultLabel(2)) # {}
    /\ security_solutions[1] # security_solutions[2]


\* ---------------------------------------- claims about the order of the calls

\* C19: within one request the external calls are made in a fixed order and
\* never overlap: the translator's completion call has been answered before
\* the single search call is made, the search has returned before the first
\* advisor call, and the advisor makes one completion call per host record,
\* each only after the one before was answered.
C19_CallsInOrderNoOverlap ==
    /\ \A k \in DOMAIN calls :
          calls[k].by = CASE k = 1 -> "translator" [] k = 2 -> "search" [] OTHER -> "advisor"
    /\ Len(calls) >= 2 =>
          /\ translator_answer.ok
          /\ chatgpt_response.kind = "dict"
          /\ calls[2].arg = chatgpt_response.val.shodan_query
    /\ AdvisorCalls # <<>> => shodan_results # <<>>
    /\ Len(AdvisorCalls) <= Len(shodan_results)
    /\ Len(AdvisorCalls) <= Len(answers) + 1
    /\ \A i \in DOMAIN AdvisorCalls :
          AdvisorCalls[i].arg = AnalysisPrompt(shodan_results[i])
    /\ pc = "await_translator" => Len(calls) = 1
    /\ pc = "await_search" => Len(calls) = 2
    /\ pc = "await_advisor" => Len(calls) = 2 + Len(answers) + 1
    /\ pc = "done" => Len(calls) \in {0, 1, 2, 2 + Len(answers)}
    /\ response.status = 200 =>
          /\ Len(AdvisorCalls) = Len(shodan_results)
          /\ Len(answers) = Len(shodan_results)

C19_Witness ==
    /\ pc = "done"
    /\ response.status = 200
    /\ Len(calls) = 4
    /\ calls[1].by = "translator"
    /\ calls[2].by = "search"
    /\ calls[3].arg # calls[4].arg
    /\ Len(answers) = 2


\* ------------------------------------ claims about the evaluation harness

Started == SelectSeq(journal, LAMBDA x : x.ev = "started")
Ended(ev) == SelectSeq(journal, LAMBDA x : x.ev = ev)
Measuring == epc \in {"await_translator", "await_search", "await_advisor"}
LastEvent == journal[Len(journal)].ev

\* C14: Q queries and I iterations give exactly Q*I invocations, attempt k
\* on query ((k-1) div I)+1 (query-major); an invocation starts only when
\* the one before has ended, returned or raised, and the sleep after it is
\* over; when none raised there are Q*I samples.
C14_SequentialQueryMajor ==
    LET Q == Len(test_queries)
        I == iterations
        started == Started
    IN  /\ Len(started) <= Q * I
        /\ epc = "returned" => Len(started) = Q * I
        /\ \A k \in DOMAIN started :
              started[k].query = test_queries[((k - 1) \div I) + 1]
        /\ \A p \in DOMAIN journal :
              /\ journal[p].ev = "started" =>
                    p = 1 \/ journal[p - 1].ev = "slept"
              /\ journal[p].ev \in {"returned", "raised"} =>
                    /\ p > 1
                    /\ journal[p - 1].ev = "started"
                    /\ journal[p - 1].query = journal[p].query
              /\ journal[p].ev = "slept" =>
                    p > 1 /\ journal[p - 1].ev = "returned"
        /\ Measuring <=> (journal # <<>> /\ LastEvent = "started")
        /\ epc = "sleeping" <=> (journal # <<>> /\ LastEvent = "returned")
        /\ (epc = "returned" /\ Ended("raised") = <<>>) =>
              Len(eval_results) = Q * I

\* C15: between the end of any invocation, returned or raised, and the start
\* of the next one a cooldown sleep takes place.
C15_SleepAfterEveryInvocation ==
    \A p \in DOMAIN journal :
        (journal[p].ev = "started" /\ p > 1) => journal[p - 1].ev = "slept"

\* C16: an invocation that raises is caught, adds nothing to the results and
\* is not tried again, and the run goes on: once run_evaluation has returned
\* every position of the loops was attempted exactly once, Q*I attempts in
\* all, and the results are the samples of the invocations that returned, in
\* the order of the attempts.
C16_FailuresDroppedRunContinues ==
    LET Q == Len(test_queries)
        I == iterations
        started == Started
        returned == Ended("returned")
    IN  /\ Len(eval_results) = Len(returned)
        /\ Len(Ended("raised")) + Len(returned) + (IF Measuring THEN 1 ELSE 0)
              = Len(started)
        /\ \A k \in DOMAIN eval_results :
              \E p \in DOMAIN journal :
                  /\ journal[p] = returned[k]
                  /\ eval_results[k].total = journal[p].at - journal[p - 1].at
        /\ \A k \in DOMAIN returned :
              k > 1 => returned[k - 1].at < returned[k].at
        /\ epc = "returned" =>
              /\ Len(started) = Q * I
              /\ \A q \in DOMAIN test_queries :
                    Cardinality({k \in DOMAIN started :
                                    started[k].query = test_queries[q]}) = I
        /\ (journal # <<>> /\ LastEvent = "raised") =>
              \/ epc = "attempt"
              \/ epc = "returned" /\ Len(started) = Q * I

C16_Witness ==
    /\ epc = "returned"
    /\ Len(test_queries) = 2
    /\ iterations = 2
    /\ Len(journal) > 3
    /\ journal[2].ev = "raised"
    /\ journal[4].ev = "returned"
    /\ Len(Ended("raised")) = 2
    /\ Len(eval_results) = 2
    /\ eval_results[1].total # eval_results[2].total

\* C22: analyze_results of the evaluation harness raises on an empty list of
\* samples, so a run in which every invocation raised and was dropped ends
\* main with that exception: no analysis, and neither the CSV file nor the
\* JSON file is written.  With at least one sample both files are written.
C22_EmptySamplesEndMainInError ==
    /\ main_pc # "evaluating" => epc = "returned"
    /\ (main_pc # "evaluating" /\ eval_results = <<>>) =>
          /\ main_pc = "failed"
          /\ main_raised.type = "StatisticsError"
    /\ main_pc = "failed" =>
          /\ eval_results = <<>>
          /\ Ended("returned") = <<>>
          /\ eval_analysis = PyNone
          /\ files = [csv |-> <<>>, json |-> <<>>]
    /\ main_pc = "evaluating" =>
          /\ files = [csv |-> <<>>, json |-> <<>>]
          /\ eval_analysis = PyNone
    /\ main_pc = "saved" =>
          /\ eval_results # <<>>
          /\ main_raised = NoExc
          /\ eval_analysis.total.mean.num * Len(eval_results)
                = eval_analysis.total.mean.den
                    * Sum([i \in DOMAIN eval_results |-> eval_results[i].total])
          /\ Len(files.csv) = Len(eval_results) + 1
          /\ files.json = <<eval_analysis>>

C22_Witness ==
    /\ main_pc = "failed"
    /\ Len(test_queries) = 2
    /\ iterations = 2
    /\ Len(Started) = 4
    /\ Len(Ended("raised")) = 4
    /\ \E p \in DOMAIN journal : journal[p].ev = "raised" /\ journal[p].at > 0
    /\ main_raised = Exc("StatisticsError", "mean requires at least one data point")
    /\ files = [csv |-> <<>>, json |-> <<>>]

====
